---- MODULE Spec2Model ----
(***************************************************************************)
(* Model of backend/server.js: the product routes (create, update, delete, *)
(* replace image) over the Product collection and the Cloudinary asset     *)
(* store, and the admin routes (login, init) over the Admin collection.    *)
(*                                                                         *)
(* Every route handler is an async function.  Between two awaits a handler *)
(* runs without interruption; at each await (findById, uploader.destroy,   *)
(* save, deleteOne, findOne, bcrypt.hash, bcrypt.compare) other requests   *)
(* can run.  Each action below is one such uninterrupted stretch together  *)
(* with the store or asset effect of the call that ends the await.         *)
(***************************************************************************)
EXTENDS Integers, Sequences, FiniteSets, TLC

\* ---------------------------------------------------------------- bounds
MaxRequests == 2     \* requests ever received
MaxClock == 2        \* largest value Date.now() returns

\* Each request has a slot of its own; any number of them can be in flight.
Procs == 1..MaxRequests

\* ------------------------------------------------------- values and schema
Undefined == "<undefined>"   \* a String path that is not set
NoNumber == 0 - 1            \* a Number path that is not set
CastError == 0 - 2           \* the result of a failed Number cast
NoHandle == <<>>             \* colorImagePublicId not set (falsy)
NoUrl == <<>>                \* colorImageUrl not set
ForgedHandle == <<"forged">> \* a public id sent in the request body

\* req.file of an upload stored by multer-storage-cloudinary as asset n:
\* filename is the public id, path is the asset's URL.
FileName(n) == <<"asset", n>>
FilePath(n) == <<"url", n>>
NoFile == 0 - 1

\* req.params.id that is no ObjectId (findById rejects with a CastError).
MalformedId == 0 - 3
IsObjectId(id) == id > 0

\* productSchema: the required paths name, brand, price and quantity (which
\* has the default 0), the image paths and lastUpdated.  The optional String
\* paths color, colorCode, size, category and description are assigned,
\* cast and saved like name, with no validator, and are left out.
StringPaths == {"name", "brand"}
NumberPaths == {"price", "quantity"}
ImagePaths == {"colorImageUrl", "colorImagePublicId"}
SchemaPaths == StringPaths \cup NumberPaths \cup ImagePaths \cup {"lastUpdated"}

\* productSchema: the Number cast of a raw request value (a form field is a
\* string): a numeric string becomes the number, anything else fails.
CastNumber(raw) ==
    CASE raw = "1" -> 1
      [] raw = "2" -> 2
      [] raw = "05" -> 5
      [] OTHER -> CastError

\* The value a schema path takes when the raw value is assigned to it.
CastPath(key, raw) ==
    IF key \in NumberPaths THEN CastNumber(raw) ELSE raw

\* productSchema's required validators: name, brand, price and quantity
\* must be set (the required validator of a String also rejects the empty
\* string), and a path whose cast failed is invalid.
IsValid(d) ==
    /\ d.name # Undefined /\ d.name # ""
    /\ d.brand # Undefined /\ d.brand # ""
    /\ d.price # NoNumber /\ d.price # CastError
    /\ d.quantity # NoNumber /\ d.quantity # CastError

\* Request bodies: functions from the keys present to raw values.
EmptyBody == [k \in {} |-> ""]
UpdateBodies ==
    { [k \in {"name"} |-> "b"],
      [k \in {"name", "quantity"} |-> IF k = "name" THEN "c" ELSE "05"],
      [k \in {"price"} |-> "abc"],
      [k \in {"colorImagePublicId", "lastUpdated"} |->
          IF k = "lastUpdated" THEN 0 ELSE ForgedHandle] }
CreateBodies ==
    { [k \in {"name", "brand", "price"} |->
          IF k = "name" THEN "a" ELSE IF k = "brand" THEN "acme" ELSE "1"],
      [k \in {"name", "price"} |-> IF k = "name" THEN "a" ELSE "1"] }

Field(body, key, dflt) == IF key \in DOMAIN body THEN CastPath(key, body[key]) ELSE dflt

VARIABLES
    db,         \* Product collection: id -> stored document
    assets,     \* Cloudinary: the asset numbers that exist
    nextId,     \* next _id a constructed document gets
    nextAsset,  \* next asset number an upload gets
    received,   \* requests received so far
    pc,         \* per request slot: where the handler is
    req,        \* per request slot: route, id, body, file
    doc,        \* per request slot: the document the handler holds
    resp,       \* per request slot: the response sent
    calls,      \* per request slot: uploader.destroy calls issued
    destroyFailed, \* per request slot: the destroy call threw
    admins,     \* Admin collection: the stored documents, in insertion order
    admin,      \* per request slot: the Admin document findOne returned
    hashedPassword \* per request slot: the result of bcrypt.hash

pvars == <<db, assets, nextId, nextAsset, doc, calls, destroyFailed>>
avars == <<admins, admin, hashedPassword>>
vars == <<pvars, avars, received, pc, req, resp>>

NoReq == [route |-> "none", id |-> 0, body |-> EmptyBody, file |-> NoFile]
NoDoc == [id |-> 0, read |-> <<>>, cur |-> <<>>, now |-> 0]
NoResp == [status |-> 0, message |-> "", body |-> <<>>]
NoAdmin == [username |-> Undefined, password |-> <<>>]

\* bcryptjs: hash(s, 10) draws a salt and returns the cost, the salt and
\* the digest of s under that salt in one string; compare(s, hash) throws
\* unless s is a string, and otherwise recomputes the digest of s under the
\* salt found in hash.
Salts == {"salt1", "salt2"}
Digest(s, salt) == <<salt, s>>
BcryptHash(s, salt) == <<"$2a$10$", salt, Digest(s, salt)>>
IsString(s) == s # Undefined
BcryptCompare(s, hash) == hash[3] = Digest(s, hash[2])

\* The Admin collection the server starts on: empty, or already initialised.
InitialAdmins ==
    { <<>>, <<[username |-> "admin", password |-> BcryptHash("admin123", "salt1")]>> }

\* The asset a public id names, if any.
AssetOf(handle) == IF Len(handle) = 2 THEN {handle[2]} ELSE {}

\* A stored product as POST /api/admin/products leaves it: created at time 0
\* from a valid body, with the uploaded asset n or without a file.
Stored(file) ==
    [ name |-> "a", brand |-> "acme", price |-> 1, quantity |-> 0,
      colorImageUrl |-> IF file # NoFile THEN FilePath(file) ELSE NoUrl,
      colorImagePublicId |-> IF file # NoFile THEN FileName(file) ELSE NoHandle,
      lastUpdated |-> 0 ]

\* The server starts on the collection earlier requests left: empty, or
\* holding products that were created with or without an image.
InitialStores ==
    { [i \in {} |-> Stored(NoFile)],
      [i \in {1} |-> Stored(NoFile)],
      [i \in {1} |-> Stored(1)],
      [i \in {1, 2} |-> IF i = 1 THEN Stored(1) ELSE Stored(NoFile)] }

\* The state the server starts in on the given collections: no request yet.
Started(products, accounts) ==
    /\ db = products
    /\ admins = accounts
    /\ assets = UNION {AssetOf(products[i].colorImagePublicId) : i \in DOMAIN products}
    /\ nextId = Cardinality(DOMAIN products) + 1
    /\ nextAsset = Cardinality(assets) + 1
    /\ received = 0
    /\ pc = [p \in Procs |-> "idle"]
    /\ req = [p \in Procs |-> NoReq]
    /\ doc = [p \in Procs |-> NoDoc]
    /\ resp = [p \in Procs |-> NoResp]
    /\ calls = [p \in Procs |-> 0]
    /\ destroyFailed = [p \in Procs |-> FALSE]
    /\ admin = [p \in Procs |-> NoAdmin]
    /\ hashedPassword = [p \in Procs |-> <<>>]

\* The product routes, on any of the initial Product collections.
Init == \E products \in InitialStores : Started(products, <<>>)

\* The admin routes, on any of the initial Admin collections.
InitAdmin == \E accounts \in InitialAdmins : Started([i \in {} |-> Stored(NoFile)], accounts)

\* req.params.id: the id of a stored product, a well-formed id that names
\* none, or a string that is no ObjectId.
ProductIds == DOMAIN db \cup {nextId, MalformedId}

Json(status, message, body) == [status |-> status, message |-> message, body |-> body]

\* A request arrives.  upload.single('colorImage') runs before the handler:
\* with a file in the request the asset is stored first.
Receive(p, route, id, body, withFile) ==
    /\ pc[p] = "idle"
    /\ p = received + 1
    /\ received' = received + 1
    /\ req' = [req EXCEPT ![p] = [route |-> route, id |-> id, body |-> body,
                                  file |-> IF withFile THEN nextAsset ELSE NoFile]]
    /\ assets' = IF withFile THEN assets \cup {nextAsset} ELSE assets
    /\ nextAsset' = IF withFile THEN nextAsset + 1 ELSE nextAsset
    /\ UNCHANGED <<doc, resp, calls, destroyFailed, avars>>

\* --------------------------------------------------------- Date.now()
\* Date.now() is the wall clock of the host, which can be set back: a read
\* returns any value, whatever the earlier reads returned.
Times == 0..MaxClock

\* ------------------------------------------------- POST /api/admin/products
\* new Product(productData): the listed body fields only, the image paths
\* from req.file, quantity and lastUpdated from the schema defaults.
NewProduct(body, file, now) ==
    [ name |-> Field(body, "name", Undefined),
      brand |-> Field(body, "brand", Undefined),
      price |-> Field(body, "price", NoNumber),
      quantity |-> Field(body, "quantity", 0),
      colorImageUrl |-> IF file # NoFile THEN FilePath(file) ELSE NoUrl,
      colorImagePublicId |-> IF file # NoFile THEN FileName(file) ELSE NoHandle,
      lastUpdated |-> now ]

ReceiveCreate(p) ==
    \E body \in CreateBodies, withFile \in BOOLEAN :
        /\ Receive(p, "create", 0, body, withFile)
        /\ pc' = [pc EXCEPT ![p] = "construct"]
        /\ UNCHANGED <<db, nextId>>

\* Lines 143-161: the document is built and save() is called.
CreateConstruct(p) ==
    /\ pc[p] = "construct"
    /\ \E now \in Times :
        doc' = [doc EXCEPT ![p] = [id |-> nextId, read |-> <<>>, now |-> now,
                                   cur |-> NewProduct(req[p].body, req[p].file, now)]]
    /\ nextId' = nextId + 1
    /\ pc' = [pc EXCEPT ![p] = "insert"]
    /\ UNCHANGED <<db, assets, nextAsset, received, req, resp, calls, destroyFailed, avars>>

\* Lines 162-166: save() of a new document validates and inserts it.
CreateSave(p) ==
    /\ pc[p] = "insert"
    /\ \E storeOk \in BOOLEAN :
        IF ~IsValid(doc[p].cur)
        THEN /\ resp' = [resp EXCEPT ![p] = Json(400, "ValidationError", <<>>)]
             /\ db' = db
        ELSE IF ~storeOk
        THEN /\ resp' = [resp EXCEPT ![p] = Json(400, "StorageError", <<>>)]
             /\ db' = db
        ELSE /\ resp' = [resp EXCEPT ![p] = Json(201, "", doc[p].cur)]
             /\ db' = [i \in DOMAIN db \cup {doc[p].id} |->
                          IF i = doc[p].id THEN doc[p].cur ELSE db[i]]
    /\ pc' = [pc EXCEPT ![p] = "done"]
    /\ UNCHANGED <<assets, nextId, nextAsset, received, req, doc, calls, destroyFailed, avars>>

\* ------------------------------------------------------------ shared steps
Owns(d) == d.colorImagePublicId # NoHandle

\* Variant of AfterDestroy: the throw of destroy is not caught around the
\* call and ends the handler in its outer catch.
AfterDestroyAbort(route, threw) ==
    IF threw THEN "aborted"
    ELSE IF route = "delete" THEN "remove" ELSE "apply"

\* Where a handler continues after `await cloudinary.uploader.destroy(..)`
\* inside its inner try/catch: the catch only logs.
AfterDestroy(route, threw) ==
    IF route = "delete" THEN "remove" ELSE "apply"

\* Variant of AfterFind: the update route destroys the old asset of every
\* document that owns one, with or without a new file.
AfterFindNoFileTest(route, file, d) ==
    CASE route = "update" ->
           IF Owns(d) THEN "destroy" ELSE "apply"
      [] route = "delete" ->
           IF Owns(d) THEN "destroy" ELSE "remove"
      [] route = "image" ->
           IF file = NoFile THEN "nofile"
           ELSE IF Owns(d) THEN "destroy" ELSE "apply"

\* Variant of AfterFind: the image route deletes the old asset before it
\* looks whether a file was sent.
AfterFindDestroyFirst(route, file, d) ==
    CASE route = "update" ->
           IF file # NoFile /\ Owns(d) THEN "destroy" ELSE "apply"
      [] route = "delete" ->
           IF Owns(d) THEN "destroy" ELSE "remove"
      [] route = "image" ->
           IF Owns(d) THEN "destroy"
           ELSE IF file = NoFile THEN "nofile" ELSE "apply"

\* Where a handler goes once findById returned the document d.
AfterFind(route, file, d) ==
    CASE route = "update" ->
           IF file # NoFile /\ Owns(d) THEN "destroy" ELSE "apply"
      [] route = "delete" ->
           IF Owns(d) THEN "destroy" ELSE "remove"
      [] route = "image" ->
           IF file = NoFile THEN "nofile"
           ELSE IF Owns(d) THEN "destroy" ELSE "apply"

ReceiveUpdate(p) ==
    \E id \in ProductIds, body \in UpdateBodies, withFile \in BOOLEAN :
        /\ Receive(p, "update", id, body, withFile)
        /\ pc' = [pc EXCEPT ![p] = "find"]
        /\ UNCHANGED <<db, nextId>>

ReceiveDelete(p) ==
    \E id \in ProductIds :
        /\ Receive(p, "delete", id, EmptyBody, FALSE)
        /\ pc' = [pc EXCEPT ![p] = "find"]
        /\ UNCHANGED <<db, nextId>>

ReceiveImage(p) ==
    \E id \in ProductIds, withFile \in BOOLEAN :
        /\ Receive(p, "image", id, EmptyBody, withFile)
        /\ pc' = [pc EXCEPT ![p] = "find"]
        /\ UNCHANGED <<db, nextId>>

\* The status the outer catch of a route answers with (lines 201, 223, 253).
CatchStatus(route) == IF route = "delete" THEN 500 ELSE 400

\* Product.findById(req.params.id) and the lines up to the next await.  The
\* call rejects for an id that is no ObjectId and when the store fails; the
\* outer catch answers.
Find(p) ==
    /\ pc[p] = "find"
    /\ \E readOk \in BOOLEAN :
       IF ~IsObjectId(req[p].id) \/ ~readOk
       THEN /\ resp' = [resp EXCEPT ![p] =
                   Json(CatchStatus(req[p].route),
                        IF IsObjectId(req[p].id) THEN "StorageError" ELSE "CastError",
                        <<>>)]
            /\ pc' = [pc EXCEPT ![p] = "done"]
            /\ doc' = doc
       ELSE IF req[p].id \notin DOMAIN db
       THEN /\ resp' = [resp EXCEPT ![p] = Json(404, "Product not found", <<>>)]
            /\ pc' = [pc EXCEPT ![p] = "done"]
            /\ doc' = doc
       ELSE LET d == db[req[p].id]
                next == AfterFind(req[p].route, req[p].file, d) IN
            /\ doc' = [doc EXCEPT ![p] = [id |-> req[p].id, read |-> d, cur |-> d,
                                          now |-> 0]]
            /\ IF next = "nofile"
               THEN /\ resp' = [resp EXCEPT ![p] =
                                   Json(400, "No image file provided", <<>>)]
                    /\ pc' = [pc EXCEPT ![p] = "done"]
               ELSE /\ resp' = resp
                    /\ pc' = [pc EXCEPT ![p] = next]
    /\ UNCHANGED <<db, assets, nextId, nextAsset, received, req, calls, destroyFailed, avars>>

\* cloudinary.uploader.destroy(product.colorImagePublicId): the call either
\* resolves (the asset, if it exists, is gone) or throws.
Destroy(p) ==
    /\ pc[p] = "destroy"
    /\ calls' = [calls EXCEPT ![p] = @ + 1]
    /\ \E threw \in BOOLEAN :
        /\ assets' = IF threw THEN assets
                     ELSE assets \ AssetOf(doc[p].read.colorImagePublicId)
        /\ destroyFailed' = [destroyFailed EXCEPT ![p] = threw]
        /\ pc' = [pc EXCEPT ![p] = AfterDestroy(req[p].route, threw)]
    /\ UNCHANGED <<db, nextId, nextAsset, received, req, doc, resp, avars>>

\* ---------------------------------------------- PUT /api/admin/products/:id
\* Lines 185-189: every key of req.body is assigned to the document.
ApplyBody(d, body) ==
    [k \in DOMAIN d |-> IF k \in DOMAIN body THEN CastPath(k, body[k]) ELSE d[k]]

\* Lines 192-195 and 246-247: the image paths from req.file.
ApplyFile(d, file) ==
    IF file = NoFile THEN d
    ELSE [d EXCEPT !.colorImageUrl = FilePath(file),
                   !.colorImagePublicId = FileName(file)]

\* Variant of Edited: lastUpdated is set before the body is applied, so a
\* lastUpdated key of the body wins.
EditedBodyLast(route, d, body, file, now) ==
    IF route = "update"
    THEN ApplyFile(ApplyBody([d EXCEPT !.lastUpdated = now], body), file)
    ELSE [ApplyFile(d, file) EXCEPT !.lastUpdated = now]

\* Lines 185-197 (update) and 246-248 (image): the document as it is when
\* save() is called.
Edited(route, d, body, file, now) ==
    IF route = "update"
    THEN [ApplyFile(ApplyBody(d, body), file) EXCEPT !.lastUpdated = now]
    ELSE [ApplyFile(d, file) EXCEPT !.lastUpdated = now]

Apply(p) ==
    /\ pc[p] = "apply"
    /\ \E now \in Times :
        doc' = [doc EXCEPT ![p].now = now, ![p].cur =
                   Edited(req[p].route, doc[p].read, req[p].body, req[p].file, now)]
    /\ pc' = [pc EXCEPT ![p] = "save"]
    /\ UNCHANGED <<db, assets, nextId, nextAsset, received, req, resp, calls, destroyFailed, avars>>

\* The paths save() writes: Mongoose sends a $set of the paths whose value
\* differs from the one that was loaded, and nothing else.
ModifiedPaths(read, cur) == {k \in DOMAIN cur : cur[k] # read[k]}

\* Variant of Saved: save() replaces the stored document by the one the
\* handler holds.
SavedWhole(stored, read, cur) == cur

\* The stored document after save()'s updateOne.
Saved(stored, read, cur) ==
    [k \in DOMAIN stored |-> IF k \in ModifiedPaths(read, cur) THEN cur[k] ELSE stored[k]]

\* Variant of SaveOutcome: save() checks that the stored document is still
\* the one that was loaded (optimistic concurrency).
SaveOutcomeVersioned(d, storeOk) ==
    IF ~IsValid(d.cur) THEN "ValidationError"
    ELSE IF ~storeOk THEN "StorageError"
    ELSE IF d.id \notin DOMAIN db THEN "DocumentNotFoundError"
    ELSE IF db[d.id] # d.read THEN "VersionError"
    ELSE "ok"

\* The outcome of save() on a loaded document: validation first, then the
\* write, which fails when the store fails or the document is gone.
SaveOutcome(d, storeOk) ==
    IF ~IsValid(d.cur) THEN "ValidationError"
    ELSE IF ~storeOk THEN "StorageError"
    ELSE IF d.id \notin DOMAIN db THEN "DocumentNotFoundError"
    ELSE "ok"

\* Lines 198-202 and 250-254.
Save(p) ==
    /\ pc[p] = "save"
    /\ \E storeOk \in BOOLEAN :
        LET out == SaveOutcome(doc[p], storeOk) IN
        IF out = "ok"
        THEN /\ db' = [db EXCEPT ![doc[p].id] = Saved(@, doc[p].read, doc[p].cur)]
             /\ resp' = [resp EXCEPT ![p] = Json(200, "", doc[p].cur)]
        ELSE /\ db' = db
             /\ resp' = [resp EXCEPT ![p] = Json(400, out, <<>>)]
    /\ pc' = [pc EXCEPT ![p] = "done"]
    /\ UNCHANGED <<assets, nextId, nextAsset, received, req, doc, calls, destroyFailed, avars>>

\* ------------------------------------------- DELETE /api/admin/products/:id
\* Lines 220-224: Product.deleteOne({ _id }).
Remove(p) ==
    /\ pc[p] = "remove"
    /\ \E storeOk \in BOOLEAN :
        IF storeOk
        THEN /\ db' = [i \in DOMAIN db \ {req[p].id} |-> db[i]]
             /\ resp' = [resp EXCEPT ![p] = Json(200, "Product deleted", <<>>)]
        ELSE /\ db' = db
             /\ resp' = [resp EXCEPT ![p] = Json(500, "StorageError", <<>>)]
    /\ pc' = [pc EXCEPT ![p] = "done"]
    /\ UNCHANGED <<assets, nextId, nextAsset, received, req, doc, calls, destroyFailed, avars>>

\* ------------------------------------------------- POST /api/admin/login
Usernames == {"admin", "guest"}
Passwords == {"admin123", "letmein", Undefined}

\* A request of the admin routes arrives (no upload middleware).
ReceiveAdmin(p, route, body) ==
    /\ pc[p] = "idle"
    /\ p = received + 1
    /\ received' = received + 1
    /\ req' = [req EXCEPT ![p] = [route |-> route, id |-> 0, body |-> body, file |-> NoFile]]

\* Admin.findOne({ username }): the first stored document with that username.
FindOne(username) ==
    LET hits == {i \in DOMAIN admins : admins[i].username = username} IN
    IF hits = {} THEN NoAdmin
    ELSE admins[CHOOSE i \in hits : \A j \in hits : i <= j]

ReceiveLogin(p) ==
    \E username \in Usernames, password \in Passwords :
        /\ ReceiveAdmin(p, "login", [k \in {"username", "password"} |->
                                       IF k = "username" THEN username ELSE password])
        /\ pc' = [pc EXCEPT ![p] = "findOne"]
        /\ UNCHANGED <<pvars, avars, resp>>

\* Lines 123-127; a findOne that rejects lands in the catch of 135-137.
LoginFind(p) ==
    /\ pc[p] = "findOne"
    /\ req[p].route = "login"
    /\ \E readOk \in BOOLEAN :
       LET found == FindOne(req[p].body.username) IN
       IF ~readOk
       THEN /\ resp' = [resp EXCEPT ![p] = Json(500, "StorageError", <<>>)]
            /\ pc' = [pc EXCEPT ![p] = "done"]
            /\ admin' = admin
       ELSE IF found = NoAdmin
       THEN /\ resp' = [resp EXCEPT ![p] = Json(401, "Invalid credentials", <<>>)]
            /\ pc' = [pc EXCEPT ![p] = "done"]
            /\ admin' = admin
       ELSE /\ admin' = [admin EXCEPT ![p] = found]
            /\ pc' = [pc EXCEPT ![p] = "compare"]
            /\ resp' = resp
    /\ UNCHANGED <<pvars, admins, hashedPassword, received, req>>

\* The response of lines 129-137 for the submitted password and the stored
\* document: a throw of bcrypt.compare lands in the outer catch.
LoginResponse(password, found) ==
    IF ~IsString(password)
    THEN Json(500, "Illegal arguments: undefined, string", <<>>)
    ELSE IF ~BcryptCompare(password, found.password)
    THEN Json(401, "Invalid credentials", <<>>)
    ELSE Json(200, "Login successful", found.username)

LoginCompare(p) ==
    /\ pc[p] = "compare"
    /\ resp' = [resp EXCEPT ![p] = LoginResponse(req[p].body.password, admin[p])]
    /\ pc' = [pc EXCEPT ![p] = "done"]
    /\ UNCHANGED <<pvars, avars, received, req>>

\* -------------------------------------------------- POST /api/admin/init
ReceiveInit(p) ==
    /\ ReceiveAdmin(p, "init", EmptyBody)
    /\ pc' = [pc EXCEPT ![p] = "findOne"]
    /\ UNCHANGED <<pvars, avars, resp>>

\* Lines 260-263; a findOne that rejects lands in the catch of 273-275.
InitFind(p) ==
    /\ pc[p] = "findOne"
    /\ req[p].route = "init"
    /\ \E readOk \in BOOLEAN :
       LET existingAdmin == FindOne("admin") IN
       IF ~readOk
       THEN /\ resp' = [resp EXCEPT ![p] = Json(500, "StorageError", <<>>)]
            /\ pc' = [pc EXCEPT ![p] = "done"]
       ELSE IF existingAdmin # NoAdmin
       THEN /\ resp' = [resp EXCEPT ![p] = Json(400, "Admin already exists", <<>>)]
            /\ pc' = [pc EXCEPT ![p] = "done"]
       ELSE /\ resp' = resp
            /\ pc' = [pc EXCEPT ![p] = "hash"]
    /\ UNCHANGED <<pvars, avars, received, req>>

\* Line 265: bcrypt.hash('admin123', 10).
InitHash(p) ==
    /\ pc[p] = "hash"
    /\ \E salt \in Salts :
        hashedPassword' = [hashedPassword EXCEPT ![p] = BcryptHash("admin123", salt)]
    /\ pc' = [pc EXCEPT ![p] = "saveAdmin"]
    /\ UNCHANGED <<pvars, admins, admin, received, req, resp>>

\* adminSchema: username is unique, so the insert of a second document with
\* the same username fails with a duplicate key error.
InsertAdmin(stored, a) ==
    IF \E i \in DOMAIN stored : stored[i].username = a.username
    THEN stored
    ELSE Append(stored, a)

AdminCreated == "Admin created. Username: admin, Password: admin123. CHANGE THIS!"

\* Lines 266-275: admin.save() inserts, or rejects on a duplicate key or a
\* store failure; the catch answers 500.
InitSave(p) ==
    /\ pc[p] = "saveAdmin"
    /\ \E storeOk \in BOOLEAN :
       LET a == [username |-> "admin", password |-> hashedPassword[p]] IN
       IF ~storeOk
       THEN /\ admins' = admins
            /\ resp' = [resp EXCEPT ![p] = Json(500, "StorageError", <<>>)]
       ELSE /\ admins' = InsertAdmin(admins, a)
            /\ resp' = [resp EXCEPT ![p] =
                   IF admins' = admins
                   THEN Json(500, "E11000 duplicate key error", <<>>)
                   ELSE Json(200, AdminCreated, <<>>)]
    /\ pc' = [pc EXCEPT ![p] = "done"]
    /\ UNCHANGED <<pvars, admin, hashedPassword, received, req>>

NextAdmin ==
    \E p \in Procs :
        \/ ReceiveLogin(p)
        \/ LoginFind(p)
        \/ LoginCompare(p)
        \/ ReceiveInit(p)
        \/ InitFind(p)
        \/ InitHash(p)
        \/ InitSave(p)

SpecAdmin == InitAdmin /\ [][NextAdmin]_vars

Next ==
    \E p \in Procs :
        \/ ReceiveCreate(p)
        \/ CreateConstruct(p)
        \/ CreateSave(p)
        \/ ReceiveUpdate(p)
        \/ ReceiveDelete(p)
        \/ ReceiveImage(p)
        \/ Find(p)
        \/ Destroy(p)
        \/ Apply(p)
        \/ Save(p)
        \/ Remove(p)

Spec == Init /\ [][Next]_vars

\* ====================================================================
\* Properties of the product routes (checked under Spec)
\* ====================================================================
Done(p, route) == pc[p] = "done" /\ req[p].route = route
Succeeded(p, route) == Done(p, route) /\ resp[p].status = 200

\* The step in which slot p's save() of a loaded document succeeds.
SaveSucceeds(p) == pc[p] = "save" /\ pc'[p] = "done" /\ resp'[p].status = 200

\* The paths an update may write: the keys of the body, lastUpdated, and
\* with an upload the two image paths.
Writable(r) ==
    DOMAIN r.body \cup {"lastUpdated"} \cup (IF r.file # NoFile THEN ImagePaths ELSE {})

\* C1: a successful Update leaves every stored path that is not a key of
\* the body unchanged, except lastUpdated and, with an upload, the image
\* URL and the image handle.
UpdateKeepsOmittedFields ==
    [][\A p \in Procs :
          (SaveSucceeds(p) /\ req[p].route = "update") =>
              \A k \in SchemaPaths \ Writable(req[p]) :
                  db'[doc[p].id][k] = db[doc[p].id][k]]_vars

\* C1 witness: an Update with only a name in the body and no upload has
\* succeeded, the name is stored and price and image are as created.
UpdateKeepsOmittedFieldsWitness ==
    \E p \in Procs :
        /\ Succeeded(p, "update")
        /\ DOMAIN req[p].body = {"name"}
        /\ req[p].file = NoFile
        /\ req[p].id \in DOMAIN db
        /\ db[req[p].id].name = "b"
        /\ db[req[p].id].price = 1
        /\ db[req[p].id].colorImagePublicId = FileName(1)

\* The errors a request can end with that do not come from the deletion of
\* an asset: of validation, of the store, of a record that is gone.
OtherErrors == {"ValidationError", "StorageError", "DocumentNotFoundError"}

\* C2: whether uploader.destroy resolves or throws, the handler goes on
\* exactly as after a resolved call: same continuation, same document in
\* hand, no response yet, the Product collection untouched.  A request
\* whose deletion call threw then ends as one whose call resolved: unless
\* validation or the store fails, it succeeds, a Delete having removed the
\* record and an Update or ReplaceImageOnly having stored the new image.
DestroyFailureIsNotFatal ==
    [][\A p \in Procs :
          /\ (pc[p] = "destroy" /\ pc'[p] # "destroy") =>
                /\ pc'[p] = (IF req[p].route = "delete" THEN "remove" ELSE "apply")
                /\ doc'[p] = doc[p]
                /\ resp'[p] = resp[p]
                /\ db' = db
          /\ (destroyFailed[p] /\ pc[p] # "done" /\ pc'[p] = "done"
                /\ resp'[p].message \notin OtherErrors) =>
                /\ resp'[p].status = 200
                /\ IF req[p].route = "delete"
                   THEN req[p].id \notin DOMAIN db'
                   ELSE db'[req[p].id].colorImagePublicId = FileName(req[p].file)]_vars

\* C2 witness: an Update with an upload has succeeded and stored the new
\* image although the deletion of the old asset threw.
DestroyFailureIsNotFatalWitness ==
    \E p \in Procs :
        /\ Succeeded(p, "update")
        /\ destroyFailed[p]
        /\ req[p].id \in DOMAIN db
        /\ db[req[p].id].colorImagePublicId = FileName(req[p].file)

\* C3 (as claimed): every stored product has an image handle exactly when
\* its image URL is the URL of the asset that handle names.
HandleIffOwnedUrl ==
    \A i \in DOMAIN db :
        \/ db[i].colorImagePublicId = NoHandle /\ db[i].colorImageUrl = NoUrl
        \/ /\ AssetOf(db[i].colorImagePublicId) # {}
           /\ \A n \in AssetOf(db[i].colorImagePublicId) : db[i].colorImageUrl = FilePath(n)

\* The number of uploader.destroy calls the claim fixes for a finished
\* request: one when the document read owns an asset (and, for an update,
\* a file was sent), none otherwise or when no document was found.
ExpectedCalls(p) ==
    IF doc[p].id = 0 THEN 0
    ELSE IF req[p].route = "delete"
    THEN (IF Owns(doc[p].read) THEN 1 ELSE 0)
    ELSE (IF req[p].file # NoFile /\ Owns(doc[p].read) THEN 1 ELSE 0)

\* C4: a finished Delete has issued exactly one deletion call when the
\* record owned an asset and none otherwise, whether or not the call
\* succeeded; a finished Update has issued one exactly when an upload was
\* supplied and the record owned an asset, and never more than one.  The
\* record is the one findById returned; a request whose findById found
\* none or failed has issued no call.
DeletionCallCount ==
    \A p \in Procs :
        (Done(p, "delete") \/ Done(p, "update")) => calls[p] = ExpectedCalls(p)

\* C4 witness: a Delete of a record owning an asset has finished with one
\* deletion call, which threw, and the record is removed.
DeletionCallCountWitness ==
    \E p \in Procs :
        /\ Succeeded(p, "delete")
        /\ Owns(doc[p].read)
        /\ destroyFailed[p]
        /\ calls[p] = 1
        /\ req[p].id \notin DOMAIN db

\* C6 (as claimed): the stored lastUpdated of a product never decreases.
LastUpdatedNeverDecreases ==
    [][\A i \in DOMAIN db \cap DOMAIN db' :
          db'[i].lastUpdated >= db[i].lastUpdated]_vars

\* C6 (amended): a successful save of an Update or ReplaceImageOnly stores
\* as lastUpdated the value Date.now() returned in that request, whatever
\* the body carries, provided no other request changed the record's
\* lastUpdated since this one read it.  The value is later than the
\* previous one only if the clock was not set back in between.
LastUpdatedIsNow ==
    [][\A p \in Procs :
          (SaveSucceeds(p)
             /\ db[doc[p].id].lastUpdated = doc[p].read.lastUpdated) =>
              db'[doc[p].id].lastUpdated = doc[p].now]_vars

\* C6 witness: an Update whose body carries a lastUpdated of its own has
\* succeeded, and the stored lastUpdated is the value of Date.now(), later
\* than the one read.
LastUpdatedIsNowWitness ==
    \E p \in Procs :
        /\ Succeeded(p, "update")
        /\ "lastUpdated" \in DOMAIN req[p].body
        /\ req[p].id \in DOMAIN db
        /\ db[req[p].id].lastUpdated = doc[p].now
        /\ doc[p].now > doc[p].read.lastUpdated

\* C8: the save of an Update is not ordered against other saves: with a
\* valid document, the record still stored and the store working, it
\* succeeds even when the record changed since it was read, and it
\* overwrites every path the request modified.
SaveIsNotOrdered ==
    [][\A p \in Procs :
          (pc[p] = "save" /\ pc'[p] = "done" /\ req[p].route = "update"
             /\ IsValid(doc[p].cur) /\ doc[p].id \in DOMAIN db
             /\ resp'[p].message # "StorageError") =>
              /\ resp'[p].status = 200
              /\ \A k \in ModifiedPaths(doc[p].read, doc[p].cur) :
                    db'[doc[p].id][k] = doc[p].cur[k]]_vars

\* C8 witness: two Updates of the same record both read the created name,
\* so both read before either saved; both succeeded; the stored name is the
\* one of the second and the name the first wrote is lost.
LostUpdateWitness ==
    \E p, q \in Procs :
        /\ p # q
        /\ Succeeded(p, "update") /\ Succeeded(q, "update")
        /\ req[p].id = req[q].id
        /\ doc[p].read.name = "a" /\ doc[q].read.name = "a"
        /\ resp[p].body.name = "b" /\ resp[q].body.name = "c"
        /\ req[p].id \in DOMAIN db
        /\ db[req[p].id].name = "c"

\* C9 (as claimed): once no request is in flight, the image handle of every
\* stored product that names an uploaded asset names one that still exists.
\* Stated here for the runs in which the store itself never failed, where
\* a save can still fail validation.
HandleNamesLiveAsset ==
    (\A p \in Procs : pc[p] \in {"idle", "done"} /\ resp[p].message # "StorageError") =>
        \A i \in DOMAIN db : AssetOf(db[i].colorImagePublicId) \subseteq assets

\* The step of a ReplaceImageOnly in slot p changes the collection only
\* when its save succeeds, and then writes the image URL, the image handle
\* and lastUpdated of its record and nothing else.
ImageSaveFrame(p) ==
    /\ SaveSucceeds(p) =>
          /\ DOMAIN db' = DOMAIN db
          /\ \A i \in DOMAIN db :
                db'[i] = IF i = doc[p].id
                         THEN [db[i] EXCEPT
                                 !.colorImageUrl = FilePath(req[p].file),
                                 !.colorImagePublicId = FileName(req[p].file),
                                 !.lastUpdated = db'[i].lastUpdated]
                         ELSE db[i]
    /\ ~SaveSucceeds(p) => db' = db

\* The findById step of slot p ends the request with the given answer, with
\* no deletion call and no asset removed.
RefusedWith(p, status, message) ==
    /\ resp'[p] = Json(status, message, <<>>)
    /\ pc'[p] = "done" /\ calls'[p] = 0 /\ assets' = assets

\* C10 (as claimed): a successful ReplaceImageOnly writes the image URL,
\* the image handle and lastUpdated of its record and nothing else; with an
\* id that matches no record it answers 404, and with a record but no
\* upload 400, and in both cases it leaves the collection alone and issues
\* no deletion call.  Stated for the requests whose read of the store did
\* not fail.
ReplaceImageFrameAsClaimed ==
    [][\A p \in Procs :
          (req[p].route = "image" /\ pc'[p] # pc[p]
             /\ resp'[p].message # "StorageError") =>
              /\ ImageSaveFrame(p)
              /\ (pc[p] = "find" /\ req[p].id \notin DOMAIN db) =>
                    RefusedWith(p, 404, "Product not found")
              /\ (pc[p] = "find" /\ req[p].id \in DOMAIN db /\ req[p].file = NoFile) =>
                    RefusedWith(p, 400, "No image file provided")]_vars

\* C10 (amended): as claimed, except that an id matches no record with 404
\* only when it is a well-formed id; an id that is no ObjectId is answered
\* 400 with the cast error of findById, again with the collection left
\* alone and no deletion call.
ReplaceImageFrame ==
    [][\A p \in Procs :
          (req[p].route = "image" /\ pc'[p] # pc[p]
             /\ resp'[p].message # "StorageError") =>
              /\ ImageSaveFrame(p)
              /\ (pc[p] = "find" /\ req[p].id \notin DOMAIN db) =>
                    IF IsObjectId(req[p].id)
                    THEN RefusedWith(p, 404, "Product not found")
                    ELSE RefusedWith(p, 400, "CastError")
              /\ (pc[p] = "find" /\ req[p].id \in DOMAIN db /\ req[p].file = NoFile) =>
                    RefusedWith(p, 400, "No image file provided")]_vars

\* C10 witness: a ReplaceImageOnly has succeeded on a record next to
\* another one; the record holds the new image and its created name, the
\* other record is as created; and a ReplaceImageOnly with an id that is no
\* ObjectId was answered 400 without a deletion call.
ReplaceImageFrameWitness ==
    \E p, q \in Procs :
        /\ Done(q, "image") /\ req[q].id = MalformedId
        /\ resp[q] = Json(400, "CastError", <<>>) /\ calls[q] = 0
        /\ Succeeded(p, "image")
        /\ req[p].id \in DOMAIN db
        /\ db[req[p].id].colorImagePublicId = FileName(req[p].file)
        /\ db[req[p].id].colorImageUrl = FilePath(req[p].file)
        /\ db[req[p].id].name = "a"
        /\ \E j \in DOMAIN db : j # req[p].id /\ db[j] = Stored(NoFile)

\* ====================================================================
\* Properties of the admin routes (checked under SpecAdmin)
\* ====================================================================
AdminCount == Cardinality({i \in DOMAIN admins : admins[i].username = "admin"})

\* C5 (as claimed): there is never more than one Admin document with
\* username "admin", at most one finished Bootstrap call was answered with
\* success, and every other finished Bootstrap call was answered with
\* AlreadyExistsError (400, "Admin already exists").  Stated for the calls
\* in which the store itself did not fail.
BootstrapIdempotent ==
    /\ AdminCount <= 1
    /\ \A p, q \in Procs :
          (Succeeded(p, "init") /\ Succeeded(q, "init")) => p = q
    /\ \A p \in Procs :
          (Done(p, "init") /\ resp[p].status # 200
             /\ resp[p].message # "StorageError") =>
              resp[p] = Json(400, "Admin already exists", <<>>)

\* C7 (as claimed): a finished VerifyLogin call succeeded, returning the
\* username, exactly when an Admin document with that username was found
\* and the password matches its hash; every other finished call was
\* answered with the same 401 "Invalid credentials".  Stated for the calls
\* in which the store itself did not fail.
LoginUniformFailure ==
    \A p \in Procs :
        (Done(p, "login") /\ resp[p].message # "StorageError") =>
            LET ok == /\ admin[p] # NoAdmin
                      /\ admin[p].username = req[p].body.username
                      /\ IsString(req[p].body.password)
                      /\ BcryptCompare(req[p].body.password, admin[p].password)
            IN  resp[p] = IF ok THEN Json(200, "Login successful", req[p].body.username)
                          ELSE Json(401, "Invalid credentials", <<>>)

====
